---- MODULE Spec2Model ----
(***************************************************************************)
(* QCpy QuantumCircuit (src/QuantumCircuit.py): a register of qubits, each *)
(* a pair of complex128 amplitudes, single-qubit gates applied through     *)
(* np.dot, probabilities() through np.kron / np.square / np.abs, and       *)
(* measure() through np.random.choice.                                     *)
(*                                                                         *)
(* Python floats are IEEE-754 binary64.  They are modelled bit-exactly:    *)
(* a float is sign, 53-bit significand and exponent, every product and sum *)
(* is rounded to nearest, ties to even.  Significands do not fit TLC's     *)
(* integers, so they are kept as little-endian sequences of 14-bit limbs.  *)
(* Signed zeros are identified (-0.0 == 0.0 in Python), and exponents are  *)
(* unbounded: amplitudes of a register stay far from overflow/underflow.   *)
(***************************************************************************)
EXTENDS Integers, Sequences, FiniteSets, TLC

---------------------------------------------------------------------------
(* Unsigned big integers: little-endian limbs, no leading zero limb.       *)
(* Carries are resolved by look-ahead rather than by recursion, which      *)
(* keeps TLC's evaluation shallow.                                         *)

Base == 2 ^ 14

Max(S) == CHOOSE m \in S : \A n \in S : n <= m

\* the number of bits of 0 <= v < Base^2
IntBitLen(v) == CHOOSE k \in 0..28 : v < 2 ^ k /\ (k = 0 \/ v >= 2 ^ (k - 1))

LimbBits == IntBitLen(Base - 1)

Limb(a, i) == IF i \in 1..Len(a) THEN a[i] ELSE 0

BTrim(a) == SubSeq(a, 1, Max({0} \cup {i \in 1..Len(a) : a[i] # 0}))

\* position k receives a carry: a lower position overflows and every position
\* between is full (each f[i] <= 2*Base - 2)
CarryInto(f, k) ==
  \E j \in 1..(k - 1) : f[j] >= Base /\ \A i \in (j + 1)..(k - 1) : f[i] = Base - 1

\* the limbs of the sum over k of f[k] * Base^(k-1), each f[k] <= 2*Base - 2
Resolve(f) ==
  BTrim([k \in 1..(Len(f) + 1) |->
           (Limb(f, k) + IF CarryInto(f, k) THEN 1 ELSE 0) % Base])

\* the same sum with the part of each f[k] above Base moved one position up
Spill(f) ==
  [k \in 1..(Len(f) + 1) |-> (Limb(f, k) % Base) + (Limb(f, k - 1) \div Base)]

BAdd(a, b) ==
  Resolve([k \in 1..Max({Len(a), Len(b)}) |-> Limb(a, k) + Limb(b, k)])

\* position k lends to a lower one: a lower difference is negative and every
\* difference between is zero
BorrowFrom(d, k) ==
  \E j \in 1..(k - 1) : d[j] < 0 /\ \A i \in (j + 1)..(k - 1) : d[i] = 0

BDiff(d) ==
  BTrim([k \in 1..Len(d) |-> (d[k] - IF BorrowFrom(d, k) THEN 1 ELSE 0) % Base])

\* a - b, for a >= b
BSub(a, b) == BDiff([k \in 1..Len(a) |-> a[k] - Limb(b, k)])

\* the sign of a[i] - b[i] at the highest position i of D, or 0 for empty D
BCmpAt(a, b, D) ==
  IF D = {} THEN 0 ELSE IF Limb(a, Max(D)) > Limb(b, Max(D)) THEN 1 ELSE -1

\* -1, 0, 1 as a < b, a = b, a > b
BCmp(a, b) ==
  BCmpAt(a, b, {i \in 1..Max({Len(a), Len(b)}) : Limb(a, i) # Limb(b, i)})

\* column k of the schoolbook product, for a of at most four limbs
Column(a, b, k) ==
  Limb(a, 1) * Limb(b, k) + Limb(a, 2) * Limb(b, k - 1)
    + Limb(a, 3) * Limb(b, k - 2) + Limb(a, 4) * Limb(b, k - 3)

\* a * b, for a of at most four limbs (a significand, or a midpoint of two)
BMul(a, b) ==
  Resolve(Spill(Spill([k \in 1..(Len(a) + Len(b)) |-> Column(a, b, k)])))

BShl(a, k) ==
  [j \in 1..(k \div LimbBits) |-> 0]
    \o BTrim(Spill([j \in 1..Len(a) |-> a[j] * (2 ^ (k % LimbBits))]))

\* floor(a / 2^k)
BShr(a, k) ==
  BTrim([j \in 1..(Len(a) - (k \div LimbBits)) |->
    (Limb(a, j + (k \div LimbBits)) \div (2 ^ (k % LimbBits)))
      + (Limb(a, j + (k \div LimbBits) + 1) % (2 ^ (k % LimbBits)))
          * (2 ^ (LimbBits - (k % LimbBits)))])

\* a mod 2^k
BLow(a, k) ==
  BTrim([j \in 1..Len(a) |->
    IF j <= k \div LimbBits THEN a[j]
    ELSE IF j = (k \div LimbBits) + 1 THEN a[j] % (2 ^ (k % LimbBits))
    ELSE 0])

BBitLen(a) ==
  IF a = <<>> THEN 0 ELSE LimbBits * (Len(a) - 1) + IntBitLen(a[Len(a)])

BOdd(a) == a # <<>> /\ a[1] % 2 = 1

BOne == <<1>>

---------------------------------------------------------------------------
(* binary64: [s, m, e] is (-1)^s * m * 2^e with m of exactly Precision     *)
(* bits, or the zero below.                                                *)

Precision == 53

FZero == [s |-> 0, m |-> <<>>, e |-> 0]

\* a significand q of Precision bits, or 2^Precision after a round up
FCarry(s, q, e) ==
  IF BBitLen(q) > Precision THEN [s |-> s, m |-> BShr(q, 1), e |-> e + 1]
  ELSE [s |-> s, m |-> q, e |-> e]

\* q is the kept part, cmp compares the cut part with half a unit: to nearest,
\* ties to even
FNearestEven(s, q, e, cmp) ==
  FCarry(s, IF cmp > 0 \/ (cmp = 0 /\ BOdd(q)) THEN BAdd(q, BOne) ELSE q, e)

FRoundLen(s, n, e, len) ==
  IF len = 0 THEN FZero
  ELSE IF len <= Precision
  THEN [s |-> s, m |-> BShl(n, Precision - len), e |-> e - (Precision - len)]
  ELSE FNearestEven(s, BShr(n, len - Precision), e + (len - Precision),
                    BCmp(BLow(n, len - Precision), BShl(BOne, len - Precision - 1)))

\* (-1)^s * n * 2^e rounded to nearest, ties to even
FRound(s, n, e) == FRoundLen(s, n, e, BBitLen(n))

FNeg(x) == IF x.m = <<>> THEN x ELSE [x EXCEPT !.s = 1 - x.s]

FAbs(x) == [x EXCEPT !.s = 0]

FMul(x, y) ==
  IF x.m = <<>> \/ y.m = <<>> THEN FZero
  ELSE FRound((x.s + y.s) % 2, BMul(x.m, y.m), x.e + y.e)

\* the sum of (-1)^xs * xm * 2^e and (-1)^ys * ym * 2^e, cmp comparing xm with ym
FAddAligned(xs, xm, ys, ym, e, cmp) ==
  FRound(IF xs = ys \/ cmp > 0 THEN xs ELSE ys,
         IF xs = ys THEN BAdd(xm, ym)
         ELSE IF cmp >= 0 THEN BSub(xm, ym) ELSE BSub(ym, xm),
         e)

FAddAt(x, y, e) ==
  FAddAligned(x.s, BShl(x.m, x.e - e), y.s, BShl(y.m, y.e - e), e,
              BCmp(BShl(x.m, x.e - e), BShl(y.m, y.e - e)))

FAdd(x, y) ==
  IF x.m = <<>> THEN y
  ELSE IF y.m = <<>> THEN x
  ELSE FAddAt(x, y, IF x.e < y.e THEN x.e ELSE y.e)

FSub(x, y) == FAdd(x, FNeg(y))

FIsNegative(x) == x.m # <<>> /\ x.s = 1

\* x < y
FLess(x, y) == FIsNegative(FSub(x, y))

\* -1, 0, 1 as a * 2^ea is below, equal to, above b * 2^eb
BCmpScaled(a, ea, b, eb) ==
  IF ea < eb THEN BCmp(a, BShl(b, eb - ea)) ELSE BCmp(BShl(a, ea - eb), b)

\* the midpoints between x > 0 and its binary64 neighbours, as <<n, e>> for
\* n * 2^e; below a power of two the numbers are twice as dense
MidBelow(x) ==
  IF BBitLen(BSub(x.m, BOne)) < Precision
  THEN <<BSub(BShl(x.m, 2), BOne), x.e - 2>>
  ELSE <<BSub(BShl(x.m, 1), BOne), x.e - 1>>

MidAbove(x) == <<BAdd(BShl(x.m, 1), BOne), x.e - 1>>

\* lo * b <= a <= hi * b, for lo and hi as <<n, e>>
QuotientBetween(lo, hi, a, b) ==
  /\ BCmpScaled(BMul(lo[1], b.m), lo[2] + b.e, a.m, a.e) <= 0
  /\ BCmpScaled(BMul(hi[1], b.m), hi[2] + b.e, a.m, a.e) >= 0

\* q is a / b correctly rounded (a, b > 0): a / b lies between the midpoints
\* around q
IsQuotient(q, a, b) == QuotientBetween(MidBelow(q), MidAbove(q), a, b)

\* lo^2 <= a <= hi^2
SquareBetween(lo, hi, a) ==
  /\ BCmpScaled(BMul(lo[1], lo[1]), 2 * lo[2], a.m, a.e) <= 0
  /\ BCmpScaled(BMul(hi[1], hi[1]), 2 * hi[2], a.m, a.e) >= 0

\* r is math.sqrt(a), which is correctly rounded (a > 0)
IsSqrt(r, a) == SquareBetween(MidBelow(r), MidAbove(r), a)

\* a / b, as the binary64 number with significand m (limbs) and exponent e
FDiv(a, b, m, e) == CHOOSE q \in {[s |-> 0, m |-> m, e |-> e]} : IsQuotient(q, a, b)

\* math.sqrt(a), as the binary64 number with significand m (limbs) and exponent e
FSqrt(a, m, e) == CHOOSE r \in {[s |-> 0, m |-> m, e |-> e]} : IsSqrt(r, a)

\* float(i) for a small integer i
FInt(i) == FRound(IF i < 0 THEN 1 ELSE 0, IF i = 0 THEN <<>> ELSE <<IF i < 0 THEN -i ELSE i>>, 0)

---------------------------------------------------------------------------
(* The same formulas read over the reals ("exact"): the numbers the gates  *)
(* produce lie in Z[sqrt 2, 1/2]; [a, b, k] is (a + b*sqrt2) / 2^k, with k *)
(* least.                                                                  *)

RECURSIVE XNorm(_)
XNorm(x) ==
  IF x.a = 0 /\ x.b = 0 THEN [a |-> 0, b |-> 0, k |-> 0]
  ELSE IF x.k > 0 /\ x.a % 2 = 0 /\ x.b % 2 = 0
       THEN XNorm([a |-> x.a \div 2, b |-> x.b \div 2, k |-> x.k - 1])
       ELSE x

XInt(i) == [a |-> i, b |-> 0, k |-> 0]

XMul(x, y) ==
  XNorm([a |-> x.a * y.a + 2 * x.b * y.b, b |-> x.a * y.b + x.b * y.a, k |-> x.k + y.k])

XAdd(x, y) ==
  LET k == IF x.k > y.k THEN x.k ELSE y.k
      fx == 2 ^ (k - x.k)
      fy == 2 ^ (k - y.k)
  IN  XNorm([a |-> x.a * fx + y.a * fy, b |-> x.b * fx + y.b * fy, k |-> k])

XNeg(x) == [x EXCEPT !.a = -x.a, !.b = -x.b]

\* x < 0: the sign of a + b*sqrt2
XNegative(x) ==
  IF x.a <= 0 /\ x.b <= 0 THEN x.a < 0 \/ x.b < 0
  ELSE IF x.a >= 0 /\ x.b >= 0 THEN FALSE
  ELSE IF x.a < 0 THEN x.a * x.a > 2 * x.b * x.b
  ELSE 2 * x.b * x.b > x.a * x.a

\* 1/sqrt(2) = sqrt2 / 2
XInvSqrt2 == [a |-> 0, b |-> 1, k |-> 1]

---------------------------------------------------------------------------
(* Arithmetic by reading: "binary64" is what the program computes, "exact" *)
(* is the same expression over the reals.                                  *)

Readings == {"binary64", "exact"}

Num(ar, i) == IF ar = "binary64" THEN FInt(i) ELSE XInt(i)
Mul(ar, a, b) == IF ar = "binary64" THEN FMul(a, b) ELSE XMul(a, b)
Add(ar, a, b) == IF ar = "binary64" THEN FAdd(a, b) ELSE XAdd(a, b)
Neg(ar, a) == IF ar = "binary64" THEN FNeg(a) ELSE XNeg(a)
Negative(ar, a) == IF ar = "binary64" THEN FIsNegative(a) ELSE XNegative(a)
Abs(ar, a) == IF Negative(ar, a) THEN Neg(ar, a) ELSE a

\* sqrt(2) = 0x1.6a09e667f3bcdp+0
FSqrt2 == FSqrt(FInt(2), <<15309, 6652, 2534, 1448>>, -52)

\* 1 / sqrt(2) = 0x1.6a09e667f3bccp-1, one unit below the binary64 nearest to
\* the real 1/sqrt(2)
FInvSqrt2 == FDiv(FInt(1), FSqrt2, <<15308, 6652, 2534, 1448>>, -53)

\* a faulty factor: 1/2 where 1/sqrt(2) is meant
OneHalf(ar) ==
  IF ar = "binary64" THEN FRound(0, BOne, -1) ELSE XNorm([a |-> 1, b |-> 0, k |-> 1])

InvSqrt2(ar) == IF ar = "binary64" THEN FInvSqrt2 ELSE XInvSqrt2

\* Python complex / complex128: re + im*j, from an integer pair
Cx(ar, c) == [re |-> Num(ar, c[1]), im |-> Num(ar, c[2])]

\* the four real products of a complex product: re*re, im*im, re*im, im*re
CProducts(ar, a, b) ==
  [i \in 1..4 |-> Mul(ar, IF i \in {1, 3} THEN a.re ELSE a.im,
                          IF i \in {1, 4} THEN b.re ELSE b.im)]

\* (re*re - im*im) + (re*im + im*re)j
CCombine(ar, p) ==
  LET part == [i \in 1..2 |-> Add(ar, p[2 * i - 1], IF i = 1 THEN Neg(ar, p[2]) ELSE p[4])]
  IN  [re |-> part[1], im |-> part[2]]

CMul(ar, a, b) == CCombine(ar, CProducts(ar, a, b))

CAdd(ar, a, b) ==
  LET part == [i \in 1..2 |-> Add(ar, IF i = 1 THEN a.re ELSE a.im,
                                      IF i = 1 THEN b.re ELSE b.im)]
  IN  [re |-> part[1], im |-> part[2]]

\* np.dot of a 2x2 matrix and a 2-vector
Dot(ar, M, v) ==
  [r \in 1..2 |-> CAdd(ar, CMul(ar, M[r][1], v[1]), CMul(ar, M[r][2], v[2]))]

---------------------------------------------------------------------------
(* Gate matrices, as the literals of the five methods.                     *)

\* a 2x2 literal of complex numbers, each written <<re, im>>
Complex2x2(ar, lit) == [r \in 1..2 |-> [c \in 1..2 |-> Cx(ar, lit[r][c])]]

identity_gate(ar) == Complex2x2(ar, << << <<1, 0>>, <<0, 0>> >>, << <<0, 0>>, <<1, 0>> >> >>)

x_gate(ar) == Complex2x2(ar, << << <<0, 0>>, <<1, 0>> >>, << <<1, 0>>, <<0, 0>> >> >>)

\* a faulty Y: the conjugate, with the signs of i exchanged
y_gate_conjugate(ar) ==
  Complex2x2(ar, << << <<0, 0>>, <<0, 1>> >>, << <<0, -1>>, <<0, 0>> >> >>)

y_gate(ar) == Complex2x2(ar, << << <<0, 0>>, <<0, -1>> >>, << <<0, 1>>, <<0, 0>> >> >>)

z_gate(ar) == Complex2x2(ar, << << <<1, 0>>, <<0, 0>> >>, << <<0, 0>>, <<-1, 0>> >> >>)

\* m * 1 / sqrt(2): every entry e of m becomes (e * 1) / sqrt(2), computed as
\* e.re * (1.0 / sqrt(2)) and e.im * (1.0 / sqrt(2))
ScaleInvSqrt2(ar, m) ==
  [r \in 1..2 |-> [c \in 1..2 |->
     LET part == [i \in 1..2 |-> Mul(ar, IF i = 1 THEN m[r][c].re ELSE m[r][c].im,
                                         InvSqrt2(ar))]
     IN  [re |-> part[1], im |-> part[2]]]]

\* a faulty H: the literal without its factor 1/sqrt(2)
hadamard_gate_unscaled(ar) ==
  Complex2x2(ar, << << <<1, 0>>, <<1, 0>> >>, << <<1, 0>>, <<-1, 0>> >> >>)

hadamard_gate(ar) ==
  ScaleInvSqrt2(ar, Complex2x2(ar, << << <<1, 0>>, <<1, 0>> >>, << <<1, 0>>, <<-1, 0>> >> >>))

GateNames == {"identity", "x", "y", "z", "hadamard"}

GateOf(ar, g) ==
  CASE g = "identity" -> identity_gate(ar)
    [] g = "x"        -> x_gate(ar)
    [] g = "y"        -> y_gate(ar)
    [] g = "z"        -> z_gate(ar)
    [] g = "hadamard" -> hadamard_gate(ar)

\* Qubit(bit).state: [1, 0] for 0 and [0, 1] for 1
Qubit(ar, bit) ==
  [c \in 1..2 |-> Cx(ar, IF c = bit + 1 THEN <<1, 0>> ELSE <<0, 0>>)]

\* int(char) for the characters of a bit string
IntOfChar(c) == IF c = "0" THEN 0 ELSE 1

\* __init__: one Qubit per character, in order
MakeQubits(ar, str) == [i \in 1..Len(str) |-> Qubit(ar, IntOfChar(str[i]))]

\* a faulty indexing: every index outside 0..n-1 raises IndexError
PyIndexNonNegative(bit, n) == IF 0 <= bit /\ bit < n THEN bit + 1 ELSE 0

\* list[bit]: the 1-based position of a Python index into a list of n items, or
\* 0 when the access raises IndexError.  Negative indices count from the end.
PyIndex(bit, n) ==
  IF 0 <= bit /\ bit < n THEN bit + 1
  ELSE IF -n <= bit /\ bit < 0 THEN n + bit + 1
  ELSE 0

\* a faulty gate body: the product is taken for every qubit of the register
ApplyGateEverywhere(ar, gate, qa, pos) == [j \in 1..Len(qa) |-> Dot(ar, gate, qa[j])]

\* the body shared by identity / x / y / z / hadamard: the register after
\* np.dot(gate, state) has replaced the state at position pos
ApplyGate(ar, gate, qa, pos) == [qa EXCEPT ![pos] = Dot(ar, gate, qa[pos])]

---------------------------------------------------------------------------
(* probabilities()                                                         *)

\* a faulty product: np.kron with its arguments exchanged
KronSwapped(ar, a, b) ==
  [k \in 1..(Len(a) * Len(b)) |->
     CMul(ar, b[((k - 1) \div Len(a)) + 1], a[((k - 1) % Len(a)) + 1])]

\* np.kron of two 1-D arrays
Kron(ar, a, b) ==
  [k \in 1..(Len(a) * Len(b)) |->
     CMul(ar, a[((k - 1) \div Len(b)) + 1], b[((k - 1) % Len(b)) + 1])]

\* temp_arr after the queue q has been consumed: q[0] alone, or q[0] kron q[1]
\* kron ... in index order; acc is <<>> before the first state is taken
RECURSIVE KronQueue(_, _, _)
KronQueue(ar, acc, q) ==
  IF q = <<>> THEN acc
  ELSE KronQueue(ar, IF acc = <<>> THEN Head(q) ELSE Kron(ar, acc, Head(q)), Tail(q))

JointAmplitudes(ar, qa) == KronQueue(ar, <<>>, qa)

\* np.square of a complex number
CSquare(ar, c) == CMul(ar, c, c)

\* a faulty weight: np.square(temp_arr).real without the absolute value
RealSquare(ar, t) == [k \in 1..Len(t) |-> CSquare(ar, t[k]).re]

\* np.abs(np.square(temp_arr).real)
AbsRealSquare(ar, t) == [k \in 1..Len(t) |-> Abs(ar, CSquare(ar, t[k]).re)]

probabilities(ar, qa) == AbsRealSquare(ar, JointAmplitudes(ar, qa))

---------------------------------------------------------------------------
(* measure()                                                               *)

\* format(i, 'b')
RECURSIVE FormatB(_)
FormatB(i) ==
  IF i < 2 THEN <<IF i = 0 THEN "0" ELSE "1">>
  ELSE FormatB(i \div 2) \o <<IF i % 2 = 0 THEN "0" ELSE "1">>

\* str.zfill(width)
RECURSIVE ZFill(_, _)
ZFill(str, width) == IF Len(str) >= width THEN str ELSE ZFill(<<"0">> \o str, width)

Digits == <<"0", "1", "2", "3", "4", "5", "6", "7", "8", "9">>
DigitValue(c) == CHOOSE d \in 0..9 : Digits[d + 1] = c

\* a faulty reading: int(str, 2), the string read as a binary numeral
RECURSIVE IntOfBinaryStr(_)
IntOfBinaryStr(str) ==
  IF str = <<>> THEN 0
  ELSE 2 * IntOfBinaryStr(SubSeq(str, 1, Len(str) - 1)) + DigitValue(str[Len(str)])

\* int(str): the string read as a decimal numeral
RECURSIVE IntOfStr(_)
IntOfStr(str) ==
  IF str = <<>> THEN 0
  ELSE 10 * IntOfStr(SubSeq(str, 1, Len(str) - 1)) + DigitValue(str[Len(str)])

\* str(i) for i >= 0: the decimal numeral, no leading zeros
RECURSIVE StrOfInt(_)
StrOfInt(i) ==
  IF i < 10 THEN <<Digits[i + 1]>> ELSE StrOfInt(i \div 10) \o <<Digits[(i % 10) + 1]>>

\* state_list: every outcome's binary numeral, zero-filled, then read by int()
state_list(num_bits) ==
  [k \in 1..(2 ^ num_bits) |-> IntOfStr(ZFill(FormatB(k - 1), num_bits))]

\* the compensated sum np.random.choice takes of p:
\*   y = p[i] - c; t = sum + y; c = (t - sum) - y; sum = t
RECURSIVE KahanFrom(_, _, _, _)
KahanStep(p, i, sum, y, t) == KahanFrom(p, i + 1, t, FSub(FSub(t, sum), y))
KahanTerm(p, i, sum, y) == KahanStep(p, i, sum, y, FAdd(sum, y))
KahanFrom(p, i, sum, c) ==
  IF i > Len(p) THEN sum ELSE KahanTerm(p, i, sum, FSub(p[i], c))

KahanSum(p) == KahanFrom(p, 2, p[1], FZero)

\* sqrt(finfo(float64).eps) = sqrt(2^-52) = 2^-26, the tolerance of
\* np.random.choice
ChoiceAtol == FSqrt(FRound(0, BOne, 1 - Precision), <<0, 0, 0, 1024>>, -78)

\* np.random.choice accepts p: no negative entry, and a sum within atol of 1
ChoiceAccepts(p) ==
  /\ \A k \in 1..Len(p) : ~FIsNegative(p[k])
  /\ ~FLess(ChoiceAtol, FAbs(FSub(KahanSum(p), FInt(1))))

\* the positions np.random.choice can draw: the cumulative sum steps up there
ChoiceSupport(p) == {k \in 1..Len(p) : p[k] # FZero}

\* a faulty result: str(final_state[0]) without the zero fill
final_state_unpadded(drawn, num_bits) == StrOfInt(drawn)

\* str(final_state[0]).zfill(num_bits)
final_state(drawn, num_bits) == ZFill(StrOfInt(drawn), num_bits)

---------------------------------------------------------------------------
(* The register and its operations.                                        *)

MaxQubits == 2
MaxGates == 3

RECURSIVE BitStrings(_)
BitStrings(n) ==
  IF n = 0 THEN {<<>>}
  ELSE {<<c>> \o t : c \in {"0", "1"}, t \in BitStrings(n - 1)}

VARIABLES
  bit_str,      \* self._bit_str
  qubit_array,  \* self._qubit_array: the states, binary64
  ideal_array,  \* the same register with every gate read over the reals
  gate_log,     \* the gate calls that took effect: <<name, position>>
  last,         \* the latest call: its arguments, outcome and the state before
  probs_seen    \* what probabilities() returned since the last gate (latest two)

vars == <<bit_str, qubit_array, ideal_array, gate_log, last, probs_seen>>

Call(op, bit, ok, out) ==
  [op |-> op, bit |-> bit, ok |-> ok, out |-> out,
   pre |-> qubit_array, prei |-> ideal_array, preb |-> bit_str]

NoCall == [op |-> "none"]

Saw(p) == IF probs_seen = <<>> THEN <<p>> ELSE <<p, probs_seen[1]>>

Init ==
  /\ bit_str \in UNION {BitStrings(n) : n \in 1..MaxQubits}
  /\ qubit_array = MakeQubits("binary64", bit_str)
  /\ ideal_array = MakeQubits("exact", bit_str)
  /\ gate_log = <<>>
  /\ last = NoCall
  /\ probs_seen = <<>>

\* the indices of the register's qubits
InRange == 0..(Len(qubit_array) - 1)

\* integers on both sides of the range, and the range
AnyIndex == (-(Len(qubit_array) + 1))..Len(qubit_array)

\* the register by reading
Register(ar) == IF ar = "binary64" THEN qubit_array ELSE ideal_array

\* a gate method called with index bit, which list indexing takes to pos
GateAt(g, bit, pos) ==
  IF pos = 0
  THEN \* IndexError at the first line of the method
       /\ last' = Call(g, bit, FALSE, <<>>)
       /\ UNCHANGED <<bit_str, qubit_array, ideal_array, gate_log, probs_seen>>
  ELSE /\ Len(gate_log) < MaxGates
       /\ \E after \in {[ar \in Readings |-> ApplyGate(ar, GateOf(ar, g), Register(ar), pos)]} :
            /\ qubit_array' = after["binary64"]
            /\ ideal_array' = after["exact"]
       /\ gate_log' = Append(gate_log, <<g, pos>>)
       /\ last' = Call(g, bit, TRUE, <<>>)
       /\ probs_seen' = <<>>
       /\ UNCHANGED bit_str

GateCall(g, bit) == GateAt(g, bit, PyIndex(bit, Len(qubit_array)))

identity == \E bit \in InRange : GateCall("identity", bit)
x == \E bit \in InRange : GateCall("x", bit)
y == \E bit \in InRange : GateCall("y", bit)
z == \E bit \in InRange : GateCall("z", bit)
hadamard == \E bit \in InRange : GateCall("hadamard", bit)

Returned(op, p) ==
  /\ last' = Call(op, 0, TRUE, p)
  /\ probs_seen' = Saw(p)
  /\ UNCHANGED <<bit_str, qubit_array, ideal_array, gate_log>>

Probabilities == Returned("probabilities", probabilities("binary64", qubit_array))

\* a faulty measure(): the register collapses onto the outcome it returns
MeasureCollapsing(p, n) ==
  /\ ChoiceAccepts(p)
  /\ \E k \in ChoiceSupport(p) :
       \E out \in {final_state(state_list(n)[k], n)} :
         /\ last' = Call("measure", 0, TRUE, out)
         /\ qubit_array' = MakeQubits("binary64", out)
         /\ ideal_array' = MakeQubits("exact", out)
  /\ probs_seen' = Saw(p)
  /\ UNCHANGED <<bit_str, gate_log>>

\* measure() once probabilities() has returned p
MeasureWith(p, n) ==
  /\ IF ChoiceAccepts(p)
     THEN \E k \in ChoiceSupport(p) :
            last' = Call("measure", 0, TRUE, final_state(state_list(n)[k], n))
     ELSE last' = Call("measure", 0, FALSE, <<>>)
  /\ probs_seen' = Saw(p)
  /\ UNCHANGED <<bit_str, qubit_array, ideal_array, gate_log>>

Measure == MeasureWith(probabilities("binary64", qubit_array), Len(qubit_array))

Next == identity \/ x \/ y \/ z \/ hadamard \/ Probabilities \/ Measure

Spec == Init /\ [][Next]_vars

\* the same register driven with any integer index
MaxIndexGates == 2

GateCallAny ==
  /\ Len(gate_log) < MaxIndexGates
  /\ \E g \in GateNames, bit \in AnyIndex : GateCall(g, bit)

NextIndex == GateCallAny

SpecIndex == Init /\ [][NextIndex]_vars

---------------------------------------------------------------------------
(* Properties.                                                             *)

\* the latest call was a gate call that returned
GateDone == last.op \in GateNames /\ last.ok

\* the position of the qubit the latest gate call named, for an index in range
LastPos == last.bit + 1

\* the basis states
BasisStates(ar) == {Qubit(ar, 0), Qubit(ar, 1)}

\* C1: a gate call with an in-range index changes at most the qubit it names:
\* every other qubit's amplitudes, the number of qubits and the bit string are
\* exactly what they were before the call
FrameOfGate ==
  GateDone =>
    /\ Len(qubit_array) = Len(last.pre)
    /\ Len(ideal_array) = Len(last.prei)
    /\ Len(qubit_array) = Len(bit_str)
    /\ bit_str = last.preb
    /\ \A j \in 1..Len(qubit_array) :
         j # LastPos => qubit_array[j] = last.pre[j] /\ ideal_array[j] = last.prei[j]

\* a Hadamard has just changed one qubit of two while the other one, left
\* alone, was in a superposition
FrameOfGateWitness ==
  /\ GateDone
  /\ last.op = "hadamard"
  /\ Len(qubit_array) = 2
  /\ qubit_array[LastPos] # last.pre[LastPos]
  /\ \E j \in 1..2 : j # LastPos /\ qubit_array[j] \notin BasisStates("binary64")

\* the rows of the gate table worked out by hand for a state <<a0, a1>>
TimesI(ar, c) == [re |-> Neg(ar, c.im), im |-> c.re]
CNeg(ar, c) == [re |-> Neg(ar, c.re), im |-> Neg(ar, c.im)]
Scaled(ar, c) == [re |-> Mul(ar, InvSqrt2(ar), c.re), im |-> Mul(ar, InvSqrt2(ar), c.im)]

TableProduct(ar, g, a) ==
  CASE g = "identity" -> <<a[1], a[2]>>
    [] g = "x"        -> <<a[2], a[1]>>
    [] g = "y"        -> <<CNeg(ar, TimesI(ar, a[2])), TimesI(ar, a[1])>>
    [] g = "z"        -> <<a[1], CNeg(ar, a[2])>>
    [] g = "hadamard" -> <<CAdd(ar, Scaled(ar, a[1]), Scaled(ar, a[2])),
                           CAdd(ar, Scaled(ar, a[1]), CNeg(ar, Scaled(ar, a[2])))>>

\* C2: after G(i) the state of qubit i is M_G . <<a0, a1>>, the product of the
\* table's matrix for G with the state before the call: I keeps it, X swaps the
\* amplitudes, Y gives <<-i a1, i a0>>, Z negates a1, H gives
\* <<(a0 + a1)/sqrt 2, (a0 - a1)/sqrt 2>>; in the stored doubles and over the reals
GateActsByTable ==
  GateDone =>
    /\ qubit_array[LastPos] = TableProduct("binary64", last.op, last.pre[LastPos])
    /\ ideal_array[LastPos] = TableProduct("exact", last.op, last.prei[LastPos])

\* Y has just acted on a superposition, as the last gate the bound allows
GateActsByTableWitness ==
  /\ GateDone
  /\ last.op = "y"
  /\ Len(gate_log) = MaxGates
  /\ last.pre[LastPos] \notin BasisStates("binary64")
  /\ qubit_array[LastPos] # last.pre[LastPos]

\* C3: with no gate call since construction, measure() returns the bit string
\* the register was built from, on every call
MeasureOfFreshRegister ==
  (gate_log = <<>> /\ last.op = "measure") => (last.ok /\ last.out = bit_str)

\* measure() has returned on a fresh two-qubit register built from "01", and
\* not for the first time
MeasureOfFreshRegisterWitness ==
  /\ gate_log = <<>>
  /\ last.op = "measure"
  /\ last.ok
  /\ bit_str = <<"0", "1">>
  /\ Len(probs_seen) = 2

\* the characters of a bit string
BitChars == {"0", "1"}

RECURSIVE Replay(_, _, _)
Replay(ar, qa, log) ==
  IF log = <<>> THEN qa
  ELSE Replay(ar, ApplyGate(ar, GateOf(ar, Head(log)[1]), qa, Head(log)[2]), Tail(log))

\* C5: probabilities() and measure() change no amplitude: the register after a
\* call is the register before it, any interleaving of them with gate calls
\* ends in the state the gate calls alone produce, and two probabilities()
\* vectors with no gate call between them are equal
ReadsChangeNothing ==
  /\ last.op \in {"probabilities", "measure"} =>
       /\ qubit_array = last.pre
       /\ ideal_array = last.prei
       /\ bit_str = last.preb
  /\ qubit_array = Replay("binary64", MakeQubits("binary64", bit_str), gate_log)
  /\ ideal_array = Replay("exact", MakeQubits("exact", bit_str), gate_log)
  /\ Len(probs_seen) = 2 => probs_seen[1] = probs_seen[2]
  /\ last.op = "probabilities" => last.out = probs_seen[1]

\* probabilities() has returned for the second time since the last gate, on
\* a register that gates have taken away from its initial state
ReadsChangeNothingWitness ==
  /\ last.op = "probabilities"
  /\ Len(probs_seen) = 2
  /\ Len(gate_log) = MaxGates
  /\ qubit_array # MakeQubits("binary64", bit_str)

\* the value of a bit string read as a binary numeral, first character leading
RECURSIVE BinaryValue(_)
BinaryValue(str) ==
  IF str = <<>> THEN 0
  ELSE 2 * BinaryValue(SubSeq(str, 1, Len(str) - 1)) + IntOfChar(str[Len(str)])

\* the vector of length len that is 1 at the 0-based index k and 0 elsewhere
OneHot(ar, len, k) == [j \in 1..len |-> Num(ar, IF j = k + 1 THEN 1 ELSE 0)]

\* C6: on a register no gate has touched, probabilities() returns the vector
\* of length 2^n that is 1 at the index whose binary numeral is the bit string
\* (qubit 0 the leading bit) and 0 everywhere else; for n = 1 the vector is the
\* single qubit's own
FreshProbabilitiesOneHot ==
  (gate_log = <<>> /\ last.op = "probabilities") =>
    /\ last.ok
    /\ last.out = OneHot("binary64", 2 ^ Len(bit_str), BinaryValue(bit_str))
    /\ probabilities("exact", ideal_array)
         = OneHot("exact", 2 ^ Len(bit_str), BinaryValue(bit_str))

\* probabilities() has returned on the fresh register built from "01"
FreshProbabilitiesOneHotWitness ==
  /\ gate_log = <<>>
  /\ last.op = "probabilities"
  /\ bit_str = <<"0", "1">>
  /\ last.out[2] = Num("binary64", 1)

\* the latest two gate calls that took effect were both g, on the same qubit
Twice(g) ==
  /\ Len(gate_log) >= 2
  /\ gate_log[Len(gate_log)] = gate_log[Len(gate_log) - 1]
  /\ gate_log[Len(gate_log)][1] = g

\* the register as it was before the latest two gate calls
BeforeTwo(ar) ==
  Replay(ar, MakeQubits(ar, bit_str), SubSeq(gate_log, 1, Len(gate_log) - 2))

\* the original reading of C7: X twice and H twice on one qubit give back the
\* stored amplitudes exactly
InvolutionExact ==
  \A g \in {"x", "hadamard"} : Twice(g) => qubit_array = BeforeTwo("binary64")

\* 2^-50, which bounds the rounding of two Hadamard products of amplitudes of
\* magnitude at most 1
InvolutionTolerance == FRound(0, BOne, -50)

\* binary64 numbers no further apart than the tolerance
Near(a, b) == ~FLess(InvolutionTolerance, FAbs(FSub(a, b)))

CNear(c, d) == Near(c.re, d.re) /\ Near(c.im, d.im)

\* the register equals before except at pos, where it is near it
NearAt(before, pos) ==
  \A j \in 1..Len(qubit_array) :
    IF j = pos
    THEN \A c \in 1..2 : CNear(qubit_array[j][c], before[j][c])
    ELSE qubit_array[j] = before[j]

\* C7: X applied twice to a qubit gives back its stored state exactly; H
\* applied twice gives it back exactly over the reals, and in the stored
\* doubles to within 2^-50 in every real and imaginary part, with every other
\* qubit exactly as it was
InvolutionUpToRounding ==
  /\ Twice("x") =>
       /\ qubit_array = BeforeTwo("binary64")
       /\ ideal_array = BeforeTwo("exact")
  /\ Twice("hadamard") =>
       /\ ideal_array = BeforeTwo("exact")
       /\ \E before \in {BeforeTwo("binary64")} :
            NearAt(before, gate_log[Len(gate_log)][2])

\* H has acted twice on a qubit that a gate had already moved, and the
\* stored state differs from the one before the two calls
InvolutionUpToRoundingWitness ==
  /\ Twice("hadamard")
  /\ Len(gate_log) = MaxGates
  /\ gate_log[1][2] = gate_log[2][2]
  /\ gate_log[1][1] # "identity"
  /\ qubit_array # BeforeTwo("binary64")
  /\ ideal_array = BeforeTwo("exact")

\* the four real numbers of a state
Parts(q) == <<q[1].re, q[1].im, q[2].re, q[2].im>>

Min(S) == CHOOSE m \in S : \A n \in S : m <= n

\* the element of a one-element set
Only(S) == CHOOSE v \in S : TRUE

\* v^2 as an integer multiple of 2^e, for e at most twice v's exponent
SquareAt(v, e) ==
  IF v.m = <<>> THEN <<>>
  ELSE Only({BShl(sq, 2 * v.e - e) : sq \in {BMul(v.m, v.m)}})

\* the sum of the squares of four binary64 numbers, as an integer multiple of 2^e
SumOfSquaresAt(p, e) ==
  Only({BAdd(l, r) :
          l \in {BAdd(a, b) : a \in {SquareAt(p[1], e)}, b \in {SquareAt(p[2], e)}},
          r \in {BAdd(a, b) : a \in {SquareAt(p[3], e)}, b \in {SquareAt(p[4], e)}}})

\* |a0|^2 + |a1|^2 of a stored state, without rounding: <<n, e>> for n * 2^e
NormSquared(q) ==
  Only({<<SumOfSquaresAt(Parts(q), 2 * m), 2 * m>> :
          m \in {Min({Parts(q)[i].e : i \in 1..4})}})

\* |n * 2^e - 1| as an integer multiple of 2^e, for e <= 0
AwayFromOne(n, e) ==
  Only({IF BCmp(n, one) >= 0 THEN BSub(n, one) ELSE BSub(one, n) :
          one \in {BShl(BOne, -e)}})

\* | |a0|^2 + |a1|^2 - 1 | <= g * 2^-50
NormWithin(q, g) ==
  \E ns \in {NormSquared(q)} :
    \E away \in {AwayFromOne(ns[1], ns[2])} :
      BCmpScaled(away, ns[2], IF g = 0 THEN <<>> ELSE <<g>>, -50) <= 0

\* |a0|^2 + |a1|^2 over the reals
XNormSquared(q) ==
  XAdd(XAdd(XMul(q[1].re, q[1].re), XMul(q[1].im, q[1].im)),
       XAdd(XMul(q[2].re, q[2].re), XMul(q[2].im, q[2].im)))

\* the original reading of C8: every stored state has |a0|^2 + |a1|^2 = 1
UnitNormStored ==
  \A j \in 1..Len(qubit_array) : NormWithin(qubit_array[j], 0)

\* C8: in every reachable state each qubit has |a0|^2 + |a1|^2 = 1 over the
\* reals, and the stored doubles have it within 2^-50 per gate call made
UnitNormUpToRounding ==
  \A j \in 1..Len(qubit_array) :
    /\ XNormSquared(ideal_array[j]) = XInt(1)
    /\ NormWithin(qubit_array[j], Len(gate_log))

\* as many gates as the bound allows have acted, H among them, and a stored
\* state's norm is not 1
UnitNormUpToRoundingWitness ==
  /\ Len(gate_log) = MaxGates
  /\ last.op = "hadamard"
  /\ \E j \in 1..Len(qubit_array) :
       /\ ~NormWithin(qubit_array[j], 0)
       /\ XNormSquared(ideal_array[j]) = XInt(1)

\* the latest call left the register and the bit string as they were
Untouched ==
  /\ qubit_array = last.pre
  /\ ideal_array = last.prei
  /\ bit_str = last.preb

\* the latest gate call replaced the state at position pos by the table's
\* product and kept every other state
ActedAt(pos) ==
  /\ last.ok
  /\ bit_str = last.preb
  /\ Len(qubit_array) = Len(last.pre)
  /\ \A j \in 1..Len(qubit_array) :
       qubit_array[j] = IF j = pos
                        THEN TableProduct("binary64", last.op, last.pre[j])
                        ELSE last.pre[j]

\* the original reading of C9: a gate called with any index outside 0..n-1,
\* every negative integer included, fails and changes nothing
IndexErrorOutsideRange ==
  (last.op \in GateNames /\ last.bit \notin 0..(Len(last.pre) - 1)) =>
    (~last.ok /\ Untouched)

\* C9: a gate called with an index i >= n or i < -n raises IndexError and
\* changes nothing; an index -n <= i <= -1 is Python list indexing from the
\* end and acts on qubit n + i; an index 0 <= i < n acts on qubit i
IndexFollowsListIndexing ==
  last.op \in GateNames =>
    /\ (last.bit >= Len(last.pre) \/ last.bit < -Len(last.pre)) =>
         (~last.ok /\ Untouched)
    /\ (-Len(last.pre) <= last.bit /\ last.bit <= -1) =>
         ActedAt(Len(last.pre) + last.bit + 1)
    /\ (0 <= last.bit /\ last.bit < Len(last.pre)) => ActedAt(last.bit + 1)

\* X called with index -1 on two qubits has returned, with the last qubit's
\* amplitudes swapped and the first as it was
IndexFollowsListIndexingWitness ==
  /\ last.op = "x"
  /\ last.bit = -1
  /\ last.ok
  /\ Len(qubit_array) = 2
  /\ qubit_array[2] # last.pre[2]
  /\ qubit_array[1] = last.pre[1]

\* |c|^2 = Re(c)^2 + Im(c)^2
Born(ar, c) == Add(ar, Mul(ar, c.re, c.re), Mul(ar, c.im, c.im))

RECURSIVE XSum(_)
XSum(w) == IF w = <<>> THEN XInt(0) ELSE XAdd(Head(w), XSum(Tail(w)))

\* the weights w computed from the joint amplitudes t are nonnegative and
\* equal the Born probabilities entry by entry
WeightsAreBorn(ar, w, t) ==
  /\ Len(w) = 2 ^ Len(qubit_array)
  /\ Len(t) = Len(w)
  /\ \A k \in 1..Len(w) : ~Negative(ar, w[k]) /\ w[k] = Born(ar, t[k])

\* the weights w of reading ar sum to 1: exactly over the reals, and for the
\* stored doubles as far as np.random.choice asks
SumsToOne(ar, w) == IF ar = "exact" THEN XSum(w) = XInt(1) ELSE ChoiceAccepts(w)

\* C10: in every reachable state the weights |Re(c^2)| are nonnegative and
\* equal |c|^2 entry by entry, they sum to exactly 1 over the reals, the
\* stored weights are a distribution np.random.choice accepts, and measure()
\* returns only outcomes whose weight is not zero
WeightsAreDistribution ==
  \A ar \in Readings :
    \E w \in {probabilities(ar, Register(ar))} :
      /\ \E t \in {JointAmplitudes(ar, Register(ar))} : WeightsAreBorn(ar, w, t)
      /\ SumsToOne(ar, w)
      /\ last.op = "measure" =>
           (last.ok /\ w[BinaryValue(last.out) + 1] # Num(ar, 0))

\* after H on the register built from "0" the weights are <<1/2, 1/2>> over
\* the reals, and measure() has returned "1"
WeightsAreDistributionWitness ==
  /\ bit_str = <<"0">>
  /\ gate_log = << <<"hadamard", 1>> >>
  /\ probabilities("exact", ideal_array) = <<OneHalf("exact"), OneHalf("exact")>>
  /\ last.op = "measure"
  /\ last.out = <<"1">>
====
